---- MODULE Spec2Model ----
(***************************************************************************)
(* Wallet session manager of the Lazorkit React Native example.            *)
(*                                                                         *)
(* Two WalletProvider implementations live in the repository:              *)
(*   - the SDK-backed provider listed in src/DELIVERABLES.md (718-1090),   *)
(*     specification Spec (SeqSpec: the application awaits each handler    *)
(*     before it calls the next; TimedSpec: the clock advances);           *)
(*   - the simulated provider src/context/WalletContext.tsx,               *)
(*     specification SimSpec.                                              *)
(* Both share the variables below.  Every async handler is cut at its      *)
(* awaits: one action runs the synchronous code between two awaits, the    *)
(* React state updates of that segment are committed together and the      *)
(* provider's effects are run on the result.  Consecutive SecureStore      *)
(* awaits of one handler, which have no state update between them, are     *)
(* taken in one step whose input says which of them threw.                 *)
(***************************************************************************)
EXTENDS Integers, Sequences, FiniteSets

VARIABLES
    storage,        \* SecureStore: walletAddress, lastActivity, transactions
    walletAddress,  \* useState<string | null>
    publicKey,      \* useState<PublicKey | null>
    isConnected,    \* useState(false)
    isLoading,      \* useState(false) (simulated provider only)
    error,          \* useState<string | null>
    balance,        \* useState<number | null> (SDK-backed provider only)
    transactions,   \* useState<Transaction[]>
    lastActivity,   \* useState<number | null>
    sdkWallet,      \* useWalletStore(state => state.wallet)?.smartWallet
    ops,            \* async handlers suspended at an await
    now,            \* Date.now()
    nextId,         \* number of sendTransaction calls made so far
    delegateCalls,  \* number of signAndExecuteTransaction invocations
    calls,          \* number of handler calls made by the application so far
    last            \* how the most recently settled handler settled

vars == <<storage, walletAddress, publicKey, isConnected, isLoading, error,
          balance, transactions, lastActivity, sdkWallet, ops, now, nextId,
          delegateCalls, calls, last>>

mem == <<walletAddress, publicKey, isConnected, isLoading, error, balance,
         transactions, lastActivity>>

-----------------------------------------------------------------------------
(* Bounds of the model *)

MaxCalls == 2       \* handler calls the application makes after mounting
MaxTime == 1        \* Date.now() ranges over 0..MaxTime

-----------------------------------------------------------------------------
(* Values *)

\* null | x  is modelled as  <<>> | <<x>>
Null == <<>>
Some(x) == <<x>>
Val(m) == m[1]

\* A string used as an address, described by what new PublicKey(s) inspects:
\* whether it is base58 and how many bytes it decodes to.
AddrA == [s |-> "AddrA", base58 |-> TRUE, bytes |-> 32]
AddrB == [s |-> "AddrB", base58 |-> TRUE, bytes |-> 32]
BadAddr == [s |-> "not-an-address", base58 |-> FALSE, bytes |-> 0]
\* "LazorKitWallet" + 9 base-36 characters: 'l' is no base58 character
SimAddr == [s |-> "LazorKitWallet-random", base58 |-> FALSE, bytes |-> 0]
\* new PublicKey("11111111111111111111111111111111")
SystemProgramKey == [s |-> "11111111111111111111111111111111", base58 |-> TRUE, bytes |-> 32]

\* new PublicKey(s) returns (TRUE) or throws (FALSE)
IsValidPublicKey(a) == a.base58 /\ a.bytes = 32

\* JavaScript numbers used as amounts
Num(n) == <<"num", n>>
NaN == <<"NaN">>
JsNull == <<"null">>
IsNum(a) == Len(a) = 2

\* Error messages
ErrNotConnected == "Wallet not connected"
ErrRestore == "Failed to restore session"
ErrInvalidKey == "Invalid public key input"
ErrSdk == "SDK error"
ErrStorage == "SecureStore error"
ErrTransfer == "Invalid transfer amount"
ErrJson == "JSON Parse error"

-----------------------------------------------------------------------------
(* Conversions between in-memory values and stored strings *)

\* Date.now().toString(): the decimal digits
RECURSIVE NumberToString(_)
NumberToString(n) ==
    IF n < 10 THEN <<n>> ELSE NumberToString(n \div 10) \o <<n % 10>>

\* parseInt(savedActivity)
RECURSIVE ParseInt(_)
ParseInt(ds) ==
    IF Len(ds) = 1 THEN ds[1]
    ELSE 10 * ParseInt(SubSeq(ds, 1, Len(ds) - 1)) + ds[Len(ds)]

\* JSON.stringify of one number: NaN has no JSON form and is written as null
JsonNumber(a) == IF IsNum(a) THEN a ELSE JsNull

JsonTx(tx) == [tx EXCEPT !.amount = JsonNumber(tx.amount)]

\* JSON.stringify(updatedTxs)
JsonStringify(txs) ==
    [valid |-> TRUE, items |-> [i \in DOMAIN txs |-> JsonTx(txs[i])]]

\* SecureStore holding none of the three keys
EmptyStorage == [walletAddress |-> Null, lastActivity |-> Null, transactions |-> Null]

\* a stored string JSON.parse throws on
CorruptJson == [valid |-> FALSE, items |-> <<>>]

\* JSON.parse(savedTransactions), defined where it does not throw
JsonParse(text) == text.items

-----------------------------------------------------------------------------
(* Suspended handlers and settled results *)

\* A handler suspended at an await.  kind is the handler the caller invoked,
\* pc the await it is suspended at; the other fields are its locals.
NewOp(kind, pc) ==
    [kind |-> kind, pc |-> pc, id |-> 0, rcpt |-> Null, amt |-> JsNull,
     cap |-> <<>>, sw |-> Null]

\* a handler does not reach an await at which an identical one is already
\* suspended until that one has moved on
CanSuspend(op) == op \notin ops

\* How a handler settled: its promise resolved or rejected; err is the
\* error it threw or caught (the catch blocks replace or log it), val the
\* address a connectWallet persisted.
Resolved(kind, id) ==
    [kind |-> kind, id |-> id, result |-> "resolved", err |-> Null, val |-> Null]
\* the error escaping the handler
Uncaught(kind, msg) ==
    [kind |-> kind, id |-> 0, result |-> "rejected", err |-> Some(msg), val |-> Null]

Caught(kind, msg) ==
    [kind |-> kind, id |-> 0, result |-> "resolved", err |-> Some(msg), val |-> Null]
Rejected(kind, id, msg) ==
    [kind |-> kind, id |-> id, result |-> "rejected", err |-> Some(msg), val |-> Null]
NoResult == [kind |-> "none", id |-> 0, result |-> "none", err |-> Null, val |-> Null]

Settled(outcome) == last' = outcome
NoSettle == UNCHANGED last

\* What a collaborator call can do
Outcomes == {"ok", "throws"}

KeepSession == UNCHANGED <<walletAddress, publicKey, isConnected, balance, sdkWallet>>
KeepCounters == UNCHANGED <<nextId, delegateCalls, calls>>

\* the application calls one more handler
Called == calls < MaxCalls /\ calls' = calls + 1

-----------------------------------------------------------------------------
(* SDK-backed provider: effects *)

\* useEffect(..., [walletInfo, walletAddress]): sync SDK wallet state with
\* the local context.  Returns the state the effect leaves.
SyncEffect(wa, pk, ic, bal, cur) ==
    IF cur # wa
    THEN IF cur # Null
         THEN IF IsValidPublicKey(Val(cur))
              THEN [wa |-> cur, pk |-> cur, ic |-> TRUE, bal |-> bal]
              ELSE [wa |-> Null, pk |-> Null, ic |-> FALSE, bal |-> bal]
         ELSE [wa |-> Null, pk |-> Null, ic |-> FALSE, bal |-> Null]
    ELSE [wa |-> wa, pk |-> pk, ic |-> ic, bal |-> bal]

\* Commit the state updates of one synchronous segment, then run the sync
\* effect when one of its dependencies changed.
Commit(wa, pk, ic, bal, cur) ==
    LET r == IF wa # walletAddress \/ cur # sdkWallet
             THEN SyncEffect(wa, pk, ic, bal, cur)
             ELSE [wa |-> wa, pk |-> pk, ic |-> ic, bal |-> bal]
    IN  /\ walletAddress' = r.wa
        /\ publicKey' = r.pk
        /\ isConnected' = r.ic
        /\ balance' = r.bal
        /\ sdkWallet' = cur

-----------------------------------------------------------------------------
(* clearSession: the same code in both providers *)

\* clearSession() called by the application
ClearSessionCall ==
    /\ Called
    /\ CanSuspend(NewOp("clearSession", "delete"))
    /\ ops' = ops \cup {NewOp("clearSession", "delete")}
    /\ UNCHANGED <<storage, mem, sdkWallet, now, nextId, delegateCalls, last>>

\* SecureStore after deleteItemAsync("walletAddress"), ("lastActivity"),
\* ("transactions"), the failAt-th of which throws (0: none throws)
DeletedKeys(st, failAt) ==
    [walletAddress |-> IF failAt = 1 THEN st.walletAddress ELSE Null,
     lastActivity |-> IF failAt \in {1, 2} THEN st.lastActivity ELSE Null,
     transactions |-> IF failAt \in {1, 2, 3} THEN st.transactions ELSE Null]

\* the three deletes of clearSession settle; the state is reset when none
\* of them threw, and the catch only logs otherwise
ClearSessionSettle(op, failAt, sdk) ==
    /\ op \in ops
    /\ op.pc = "delete"
    /\ storage' = DeletedKeys(storage, failAt)
    /\ ops' = ops \ {op}
    /\ Settled(IF failAt = 0 THEN Resolved(op.kind, 0) ELSE Caught(op.kind, ErrStorage))
    /\ IF failAt = 0
       THEN /\ IF sdk
               THEN Commit(Null, Null, FALSE, balance, sdkWallet)
               ELSE /\ walletAddress' = Null
                    /\ publicKey' = Null
                    /\ isConnected' = FALSE
                    /\ UNCHANGED <<balance, sdkWallet>>
            /\ transactions' = <<>>
            /\ lastActivity' = Null
            /\ error' = Null
            /\ UNCHANGED isLoading
       ELSE UNCHANGED <<mem, sdkWallet>>
    /\ UNCHANGED now
    /\ KeepCounters

-----------------------------------------------------------------------------
(* restoreSession *)

\* restoreSession() called by the application (the mount effect's call is
\* part of Init)
RestoreSessionCall ==
    /\ Called
    /\ CanSuspend(NewOp("restoreSession", "get"))
    /\ ops' = ops \cup {NewOp("restoreSession", "get")}
    /\ UNCHANGED <<storage, mem, sdkWallet, now, nextId, delegateCalls, last>>

\* if (savedActivity) setLastActivity(parseInt(savedActivity))
RestoredActivity(sa) == IF sa # Null THEN Some(ParseInt(Val(sa))) ELSE lastActivity

\* if (savedTransactions) setTransactions(JSON.parse(savedTransactions))
RestoredTransactions(st) ==
    IF st # Null /\ Val(st).valid THEN JsonParse(Val(st)) ELSE transactions

ParseThrows(st) == st # Null /\ ~Val(st).valid

\* SDK-backed provider: the three reads settle and the handler runs up to
\* its end, or up to the await of clearSession()
RestoreSessionSettle(op, outcome) ==
    /\ op \in ops
    /\ op.kind = "restoreSession"
    /\ op.pc = "get"
    /\ UNCHANGED <<storage, isLoading, now>>
    /\ KeepCounters
    /\ IF outcome = "throws"
       THEN \* catch (err) { setError("Failed to restore session") }
            /\ error' = Some(ErrRestore)
            /\ ops' = ops \ {op}
            /\ Settled(Caught("restoreSession", ErrStorage))
            /\ KeepSession
            /\ UNCHANGED <<transactions, lastActivity>>
       ELSE LET savedWallet == storage.walletAddress
                savedActivity == storage.lastActivity
                savedTransactions == storage.transactions
            IN
            IF savedWallet # Null /\ ~IsValidPublicKey(Val(savedWallet))
            THEN \* catch (keyError) { await clearSession(); return; }
                 /\ CanSuspend([op EXCEPT !.pc = "delete"])
                 /\ ops' = (ops \ {op}) \cup {[op EXCEPT !.pc = "delete"]}
                 /\ KeepSession
                 /\ UNCHANGED <<transactions, lastActivity, error, last>>
            ELSE /\ IF savedWallet # Null
                    THEN Commit(savedWallet, savedWallet, TRUE, balance, sdkWallet)
                    ELSE KeepSession
                 /\ lastActivity' = RestoredActivity(savedActivity)
                 /\ transactions' = RestoredTransactions(savedTransactions)
                 /\ error' = IF ParseThrows(savedTransactions) THEN Some(ErrRestore) ELSE error
                 /\ ops' = ops \ {op}
                 /\ Settled(IF ParseThrows(savedTransactions)
                            THEN Caught("restoreSession", ErrJson)
                            ELSE Resolved("restoreSession", 0))

-----------------------------------------------------------------------------
(* SDK-backed provider: connectWallet and disconnectWallet *)

\* what the SDK's connect resolves with: result?.smartWallet
ConnectResults == {Null, Some(AddrA), Some(BadAddr)}

\* setError(null); const result = await connect({...})
ConnectWalletCall ==
    /\ Called
    /\ CanSuspend(NewOp("connectWallet", "connect"))
    /\ ops' = ops \cup {NewOp("connectWallet", "connect")}
    /\ error' = Null
    /\ UNCHANGED <<storage, walletAddress, publicKey, isConnected, isLoading,
                   balance, transactions, lastActivity, sdkWallet, now, last>>
    /\ UNCHANGED <<nextId, delegateCalls>>

\* connect settles; on success the store holds the wallet it returned
ConnectWalletSettle(op, outcome, result) ==
    /\ op \in ops
    /\ op.kind = "connectWallet"
    /\ op.pc = "connect"
    /\ UNCHANGED <<storage, isLoading, transactions, lastActivity, now>>
    /\ KeepCounters
    /\ IF outcome = "throws"
       THEN /\ error' = Some(ErrSdk)
            /\ ops' = ops \ {op}
            /\ Settled(Caught("connectWallet", ErrSdk))
            /\ KeepSession
       ELSE /\ Commit(walletAddress, publicKey, isConnected, balance,
                      IF result = Null THEN sdkWallet ELSE result)
            /\ UNCHANGED error
            /\ IF result # Null
               THEN /\ CanSuspend([op EXCEPT !.pc = "persist", !.sw = result])
                    /\ ops' = (ops \ {op}) \cup {[op EXCEPT !.pc = "persist", !.sw = result]}
                    /\ NoSettle
               ELSE /\ ops' = ops \ {op}
                    /\ Settled(Resolved("connectWallet", 0))

\* only the address written
PersistedAddressOnly(st, address, failAt) ==
    [st EXCEPT !.walletAddress = IF failAt = 1 THEN @ ELSE address]

\* SecureStore after setItemAsync("walletAddress", address) and
\* setItemAsync("lastActivity", Date.now().toString()), the failAt-th of
\* which throws (0: none throws)
PersistedConnection(st, address, failAt) ==
    [st EXCEPT !.walletAddress = IF failAt = 1 THEN @ ELSE address,
               !.lastActivity = IF failAt = 0 THEN Some(NumberToString(now)) ELSE @]

\* the two writes of connectWallet settle
ConnectWalletPersist(op, failAt) ==
    /\ op \in ops
    /\ op.kind = "connectWallet"
    /\ op.pc = "persist"
    /\ storage' = PersistedConnection(storage, op.sw, failAt)
    /\ lastActivity' = IF failAt = 0 THEN Some(now) ELSE lastActivity
    /\ error' = IF failAt = 0 THEN error ELSE Some(ErrStorage)
    /\ ops' = ops \ {op}
    /\ Settled(IF failAt = 0
               THEN [Resolved("connectWallet", 0) EXCEPT !.val = op.sw]
               ELSE Caught("connectWallet", ErrStorage))
    /\ UNCHANGED <<isLoading, transactions, now>>
    /\ KeepSession
    /\ KeepCounters

\* try { await disconnect() } ...
DisconnectWalletCall ==
    /\ Called
    /\ CanSuspend(NewOp("disconnectWallet", "disconnect"))
    /\ ops' = ops \cup {NewOp("disconnectWallet", "disconnect")}
    /\ UNCHANGED <<storage, mem, sdkWallet, now, nextId, delegateCalls, last>>

\* disconnect settles: resolved, the store holds no wallet; thrown, it may
\* or may not have dropped it.  Then clearSession() starts.
DisconnectWalletSettle(op, outcome, dropped) ==
    /\ op \in ops
    /\ op.kind = "disconnectWallet"
    /\ op.pc = "disconnect"
    /\ outcome = "ok" => dropped
    /\ Commit(walletAddress, publicKey, isConnected, balance,
              IF dropped THEN Null ELSE sdkWallet)
    /\ CanSuspend([op EXCEPT !.pc = "delete"])
    /\ ops' = (ops \ {op}) \cup {[op EXCEPT !.pc = "delete"]}
    /\ UNCHANGED <<storage, isLoading, error, transactions, lastActivity, now, last>>
    /\ KeepCounters

-----------------------------------------------------------------------------
(* SDK-backed provider: signMessage, sendTransaction, fetchBalance *)

\* a guard left out
GuardOmitted == FALSE

\* if (!isConnected) ...
NotConnected == ~isConnected

\* if (!isConnected) throw new Error("Wallet not connected");
\* await signMessage(message, {...})
SignMessageCall ==
    /\ Called
    /\ IF NotConnected
       THEN /\ Settled(Rejected("signMessage", 0, ErrNotConnected))
            /\ UNCHANGED ops
       ELSE /\ CanSuspend(NewOp("signMessage", "sign"))
            /\ ops' = ops \cup {NewOp("signMessage", "sign")}
            /\ NoSettle
    /\ UNCHANGED <<storage, mem, sdkWallet, now, nextId, delegateCalls>>

SignMessageSettle(op, outcome) ==
    /\ op \in ops
    /\ op.kind = "signMessage"
    /\ ops' = ops \ {op}
    /\ IF outcome = "throws"
       THEN /\ error' = Some(ErrSdk)
            /\ Settled(Rejected("signMessage", 0, ErrSdk))
            /\ UNCHANGED lastActivity
       ELSE /\ lastActivity' = Some(now)
            /\ Settled(Resolved("signMessage", 0))
            /\ UNCHANGED error
    /\ UNCHANGED <<storage, isLoading, transactions, now>>
    /\ KeepSession
    /\ KeepCounters

\* the recipients and amounts sendTransaction is called with
Recipients == {AddrB, BadAddr}
Amounts == {Num(0), Num(2), NaN}

\* SystemProgram.transfer({fromPubkey, toPubkey, lamports}) encodes lamports
\* as an unsigned 64-bit integer: a non-negative amount always encodes;
\* whether a negative or NaN amount throws depends on the library build.
TransferOutcomes(amt) ==
    IF IsNum(amt) /\ amt[2] >= 0 THEN {"ok"} ELSE {"ok", "throws"}

\* the new record put last: [...transactions, newTx]
AppendTx(newTx, txs) == txs \o <<newTx>>

\* const updatedTxs = [newTx, ...transactions]
PrependTx(newTx, txs) == <<newTx>> \o txs

\* const newTx: Transaction = { id, signature, type, amount, token, recipient,
\* timestamp, status }: the fields the provider's logic distinguishes
NewTx(id, amt, rcpt, status) ==
    [id |-> id, amount |-> amt, recipient |-> rcpt, status |-> status]

\* sendTransactionHandler up to await signAndExecuteTransaction(...)
SendTransactionCall(rcpt, amt, built) ==
    /\ Called
    /\ nextId' = nextId + 1
    /\ built \in TransferOutcomes(amt)
    /\ UNCHANGED <<storage, isLoading, balance, transactions, lastActivity,
                   walletAddress, publicKey, isConnected, sdkWallet, now>>
    /\ IF NotConnected \/ publicKey = Null
       THEN /\ Settled(Rejected("sendTransaction", nextId + 1, ErrNotConnected))
            /\ UNCHANGED <<ops, error, delegateCalls>>
       ELSE IF ~IsValidPublicKey(rcpt)
       THEN \* new PublicKey(recipient) throws inside the try
            /\ error' = Some(ErrInvalidKey)
            /\ Settled(Rejected("sendTransaction", nextId + 1, ErrInvalidKey))
            /\ UNCHANGED <<ops, delegateCalls>>
       ELSE IF built = "throws"
       THEN /\ error' = Some(ErrTransfer)
            /\ Settled(Rejected("sendTransaction", nextId + 1, ErrTransfer))
            /\ UNCHANGED <<ops, delegateCalls>>
       ELSE /\ ops' = ops \cup {[NewOp("sendTransaction", "delegate") EXCEPT
                              !.id = nextId + 1, !.rcpt = Some(rcpt),
                              !.amt = amt, !.cap = transactions]}
            /\ delegateCalls' = delegateCalls + 1
            /\ UNCHANGED <<error, last>>

\* signAndExecuteTransaction settles; on success the record is created,
\* state is updated and the SecureStore writes start
SendTransactionSettle(op, outcome) ==
    /\ op \in ops
    /\ op.kind = "sendTransaction"
    /\ op.pc = "delegate"
    /\ UNCHANGED <<storage, isLoading, now>>
    /\ KeepSession
    /\ KeepCounters
    /\ IF outcome = "throws"
       THEN /\ error' = Some(ErrSdk)
            /\ ops' = ops \ {op}
            /\ Settled(Rejected("sendTransaction", op.id, ErrSdk))
            /\ UNCHANGED <<transactions, lastActivity>>
       ELSE LET updatedTxs == PrependTx(NewTx(op.id, op.amt, Val(op.rcpt), "confirmed"), op.cap)
            IN  /\ transactions' = updatedTxs
                /\ lastActivity' = Some(now)
                /\ ops' = (ops \ {op}) \cup {[op EXCEPT !.pc = "persist", !.cap = updatedTxs]}
                /\ UNCHANGED <<error, last>>

\* SecureStore after setItemAsync("transactions", JSON.stringify(updated))
\* and setItemAsync("lastActivity", Date.now().toString()), the failAt-th
\* of which throws (0: none throws)
PersistedSend(st, updated, failAt) ==
    [st EXCEPT !.transactions = IF failAt = 1 THEN @ ELSE Some(JsonStringify(updated)),
               !.lastActivity = IF failAt = 0 THEN Some(NumberToString(now)) ELSE @]

\* the two writes of sendTransaction settle (both providers)
SendTransactionPersist(op, failAt) ==
    /\ op \in ops
    /\ op.kind = "sendTransaction"
    /\ op.pc = "persist"
    /\ storage' = PersistedSend(storage, op.cap, failAt)
    /\ error' = IF failAt = 0 THEN error ELSE Some(ErrStorage)
    /\ Settled(IF failAt = 0
               THEN Resolved("sendTransaction", op.id)
               ELSE Rejected("sendTransaction", op.id, ErrStorage))
    /\ ops' = ops \ {op}
    /\ isLoading' = FALSE
    /\ UNCHANGED <<transactions, lastActivity, now>>
    /\ KeepSession
    /\ KeepCounters

\* what connection.getBalance resolves with, in SOL (bal / LAMPORTS_PER_SOL)
RpcBalances == {1}

\* if (!publicKey) return;  const bal = await connection.getBalance(publicKey)
FetchBalanceCall ==
    /\ Called
    /\ IF publicKey = Null
       THEN /\ Settled(Resolved("fetchBalance", 0))
            /\ UNCHANGED ops
       ELSE /\ CanSuspend(NewOp("fetchBalance", "rpc"))
            /\ ops' = ops \cup {NewOp("fetchBalance", "rpc")}
            /\ NoSettle
    /\ UNCHANGED <<storage, mem, sdkWallet, now, nextId, delegateCalls>>

\* a failed fetch that drops the cached balance
BalanceDropped(outcome, bal) ==
    IF outcome = "ok" THEN Some(bal) ELSE Null

\* setBalance(bal / LAMPORTS_PER_SOL), or the catch that only logs
BalanceAfter(outcome, bal) ==
    IF outcome = "ok" THEN Some(bal) ELSE balance

\* await connection.getBalance(publicKey) settles
FetchBalanceSettle(op, outcome, bal) ==
    /\ op \in ops
    /\ op.kind = "fetchBalance"
    /\ ops' = ops \ {op}
    /\ balance' = BalanceAfter(outcome, bal)
    /\ Settled(Resolved("fetchBalance", 0))
    /\ UNCHANGED <<storage, walletAddress, publicKey, isConnected, isLoading, error,
                   transactions, lastActivity, sdkWallet, now>>
    /\ KeepCounters

\* time passes
Tick ==
    /\ now < MaxTime
    /\ now' = now + 1
    /\ UNCHANGED <<storage, mem, sdkWallet, ops, nextId, delegateCalls, calls, last>>

-----------------------------------------------------------------------------
(* SDK-backed provider: the specification *)

\* a record an earlier run of the app persisted
PersistedTx(i) ==
    [id |-> i, amount |-> Num(1), recipient |-> AddrB, status |-> "confirmed"]

PersistedTxs == <<PersistedTx(-1), PersistedTx(-2)>>

StoredSession(wallet, txs) ==
    [walletAddress |-> wallet, lastActivity |-> Some(NumberToString(0)), transactions |-> txs]

\* nothing stored; a session with a valid or an invalid address; the same
\* with a transactions value that is no JSON
LaunchStorage ==
    {EmptyStorage} \cup
    {StoredSession(w, t) : w \in {Some(AddrA), Some(BadAddr)},
                           t \in {Some(JsonStringify(PersistedTxs)), Some(CorruptJson)}}

\* the provider after its first render and its mount effects: the sync
\* effect has run against the SDK store and restoreSession() has started
Init ==
    /\ storage \in LaunchStorage
    /\ sdkWallet \in {Null, Some(AddrA)}
    /\ LET r == SyncEffect(Null, Null, FALSE, Null, sdkWallet)
       IN  /\ walletAddress = r.wa
           /\ publicKey = r.pk
           /\ isConnected = r.ic
           /\ balance = r.bal
    /\ isLoading = FALSE
    /\ error = Null
    /\ transactions = <<>>
    /\ lastActivity = Null
    /\ ops = {NewOp("restoreSession", "get")}
    /\ now = 0
    /\ nextId = 0
    /\ delegateCalls = 0
    /\ calls = 0
    /\ last = NoResult

\* the handlers the application can call
Calls ==
    \/ RestoreSessionCall
    \/ ClearSessionCall
    \/ ConnectWalletCall
    \/ DisconnectWalletCall
    \/ SignMessageCall
    \/ \E r \in Recipients, a \in Amounts, b \in Outcomes : SendTransactionCall(r, a, b)
    \/ FetchBalanceCall

\* the awaits that can settle
Settles ==
    \/ \E op \in ops, o \in Outcomes : RestoreSessionSettle(op, o)
    \/ \E op \in ops, f \in 0..3 : ClearSessionSettle(op, f, TRUE)
    \/ \E op \in ops, o \in Outcomes, r \in ConnectResults : ConnectWalletSettle(op, o, r)
    \/ \E op \in ops, f \in 0..2 : ConnectWalletPersist(op, f)
    \/ \E op \in ops, o \in Outcomes, d \in BOOLEAN : DisconnectWalletSettle(op, o, d)
    \/ \E op \in ops, o \in Outcomes : SignMessageSettle(op, o)
    \/ \E op \in ops, o \in Outcomes : SendTransactionSettle(op, o)
    \/ \E op \in ops, f \in 0..2 : SendTransactionPersist(op, f)
    \/ \E op \in ops, o \in Outcomes, b \in RpcBalances : FetchBalanceSettle(op, o, b)

Next == Calls \/ Settles

\* every Date.now() of a run reads the same millisecond
Spec == Init /\ [][Next]_vars

\* the same provider with time passing between the steps
TimedNext == Next \/ Tick

TimedSpec == Init /\ [][TimedNext]_vars

\* the same provider used by an application that awaits each handler before
\* it calls the next one
SeqNext == (ops = {} /\ Calls) \/ Settles

SeqSpec == Init /\ [][SeqNext]_vars

\* the same application with time passing between the steps
TimedSeqNext == SeqNext \/ Tick

TimedSeqSpec == Init /\ [][TimedSeqNext]_vars

-----------------------------------------------------------------------------
(* Simulated provider (src/context/WalletContext.tsx) *)

\* restoreSession: the three reads settle and the handler runs to its end
SimRestoreSessionSettle(op, outcome) ==
    /\ op \in ops
    /\ op.kind = "restoreSession"
    /\ op.pc = "get"
    /\ ops' = ops \ {op}
    /\ UNCHANGED <<storage, isLoading, balance, sdkWallet, now>>
    /\ KeepCounters
    /\ IF outcome = "throws"
       THEN /\ error' = Some(ErrRestore)
            /\ Settled(Caught("restoreSession", ErrStorage))
            /\ UNCHANGED <<walletAddress, publicKey, isConnected, transactions, lastActivity>>
       ELSE LET savedWallet == storage.walletAddress
                savedActivity == storage.lastActivity
                savedTransactions == storage.transactions
                keyThrows == savedWallet # Null /\ ~IsValidPublicKey(Val(savedWallet))
                thrown == keyThrows \/ ParseThrows(savedTransactions)
            IN  \* setWalletAddress(savedWallet) precedes new PublicKey(savedWallet)
                /\ walletAddress' = IF savedWallet # Null THEN savedWallet ELSE walletAddress
                /\ publicKey' = IF savedWallet # Null /\ ~keyThrows THEN savedWallet ELSE publicKey
                /\ isConnected' = IF savedWallet # Null /\ ~keyThrows THEN TRUE ELSE isConnected
                /\ lastActivity' = IF keyThrows THEN lastActivity ELSE RestoredActivity(savedActivity)
                /\ transactions' = IF keyThrows THEN transactions
                                   ELSE RestoredTransactions(savedTransactions)
                /\ error' = IF thrown THEN Some(ErrRestore) ELSE error
                /\ Settled(IF keyThrows THEN Caught("restoreSession", ErrInvalidKey)
                           ELSE IF thrown THEN Caught("restoreSession", ErrJson)
                           ELSE Resolved("restoreSession", 0))

\* connectWallet up to await SecureStore.setItemAsync("walletAddress", ...)
SimConnectWalletCall ==
    /\ Called
    /\ CanSuspend([NewOp("connectWallet", "persist") EXCEPT !.sw = Some(SimAddr)])
    /\ ops' = ops \cup {[NewOp("connectWallet", "persist") EXCEPT !.sw = Some(SimAddr)]}
    /\ isLoading' = TRUE
    /\ error' = Null
    /\ walletAddress' = Some(SimAddr)
    /\ publicKey' = Some(SystemProgramKey)
    /\ isConnected' = TRUE
    /\ UNCHANGED <<storage, balance, transactions, lastActivity, sdkWallet, now,
                   nextId, delegateCalls>>
    /\ NoSettle

\* the two writes of connectWallet settle
SimConnectWalletPersist(op, failAt) ==
    /\ op \in ops
    /\ op.kind = "connectWallet"
    /\ op.pc = "persist"
    /\ storage' = PersistedConnection(storage, op.sw, failAt)
    /\ lastActivity' = IF failAt = 0 THEN Some(now) ELSE lastActivity
    /\ error' = IF failAt = 0 THEN error ELSE Some(ErrStorage)
    /\ isConnected' = IF failAt = 0 THEN isConnected ELSE FALSE
    /\ isLoading' = FALSE
    /\ ops' = ops \ {op}
    /\ Settled(IF failAt = 0
               THEN [Resolved("connectWallet", 0) EXCEPT !.val = op.sw]
               ELSE Caught("connectWallet", ErrStorage))
    /\ UNCHANGED <<walletAddress, publicKey, balance, transactions, sdkWallet, now>>
    /\ KeepCounters

\* disconnectWallet: await clearSession()
SimDisconnectWalletCall ==
    /\ Called
    /\ CanSuspend(NewOp("disconnectWallet", "delete"))
    /\ ops' = ops \cup {NewOp("disconnectWallet", "delete")}
    /\ UNCHANGED <<storage, mem, sdkWallet, now, nextId, delegateCalls, last>>

\* signMessage has no await
SimSignMessageCall ==
    /\ Called
    /\ IF NotConnected
       THEN /\ Settled(Rejected("signMessage", 0, ErrNotConnected))
            /\ UNCHANGED <<isLoading, lastActivity>>
       ELSE /\ lastActivity' = Some(now)
            /\ isLoading' = FALSE
            /\ Settled(Resolved("signMessage", 0))
    /\ UNCHANGED <<storage, walletAddress, publicKey, isConnected, error, balance,
                   transactions, sdkWallet, ops, now, nextId, delegateCalls>>

\* The transactions a sendTransaction callback closed over: the callback of
\* the latest render holds the current list; the callback through which a
\* still pending send was called holds the list of its render, and the
\* application can call it again before it takes the new one.
RenderedTransactions ==
    {transactions} \cup
    {Tail(op.cap) : op \in {o \in ops : o.kind = "sendTransaction" /\ o.pc = "persist"}}

\* sendTransaction, called through a callback that closed over the list
\* closure, up to await SecureStore.setItemAsync("transactions", ...)
SimSendTransactionWith(rcpt, amt, closure) ==
    /\ Called
    /\ nextId' = nextId + 1
    /\ UNCHANGED <<storage, walletAddress, publicKey, isConnected, error, balance,
                   sdkWallet, now, delegateCalls>>
    /\ IF NotConnected
       THEN /\ Settled(Rejected("sendTransaction", nextId + 1, ErrNotConnected))
            /\ UNCHANGED <<ops, isLoading, transactions, lastActivity>>
       ELSE LET newTx == NewTx(nextId + 1, amt, rcpt, "pending") IN
            /\ isLoading' = TRUE
            \* setTransactions((prev) => [newTx, ...prev])
            /\ transactions' = PrependTx(newTx, transactions)
            /\ lastActivity' = Some(now)
            \* const updated = [newTx, ...transactions]
            /\ ops' = ops \cup {[NewOp("sendTransaction", "persist") EXCEPT
                                   !.id = nextId + 1, !.rcpt = Some(rcpt), !.amt = amt,
                                   !.cap = PrependTx(newTx, closure)]}
            /\ NoSettle

\* sendTransaction called by the application
SimSendTransactionCall(rcpt, amt) ==
    \E closure \in RenderedTransactions : SimSendTransactionWith(rcpt, amt, closure)

\* what SecureStore can hold when the app is launched: nothing, or a
\* session with a valid address or with one connectWallet stored
SimLaunchStorage ==
    {EmptyStorage} \cup
    {StoredSession(w, t) : w \in {Some(AddrA), Some(SimAddr)},
                           t \in {Some(JsonStringify(PersistedTxs)), Some(CorruptJson)}}

\* the provider after its first render; the mount effect has started
\* restoreSession()
SimInit ==
    /\ storage \in SimLaunchStorage
    /\ sdkWallet = Null
    /\ walletAddress = Null
    /\ publicKey = Null
    /\ isConnected = FALSE
    /\ balance = Null
    /\ isLoading = FALSE
    /\ error = Null
    /\ transactions = <<>>
    /\ lastActivity = Null
    /\ ops = {NewOp("restoreSession", "get")}
    /\ now = 0
    /\ nextId = 0
    /\ delegateCalls = 0
    /\ calls = 0
    /\ last = NoResult

\* the app is killed and launched again: a fresh provider is mounted over
\* the SecureStore contents; what was suspended is gone
SimRestart ==
    /\ Called
    /\ walletAddress' = Null
    /\ publicKey' = Null
    /\ isConnected' = FALSE
    /\ isLoading' = FALSE
    /\ error' = Null
    /\ transactions' = <<>>
    /\ lastActivity' = Null
    /\ ops' = {NewOp("restoreSession", "get")}
    /\ UNCHANGED <<storage, balance, sdkWallet, now, nextId, delegateCalls, last>>

SimCalls ==
    \/ SimRestart
    \/ RestoreSessionCall
    \/ ClearSessionCall
    \/ SimConnectWalletCall
    \/ SimDisconnectWalletCall
    \/ SimSignMessageCall
    \/ \E r \in Recipients, a \in Amounts : SimSendTransactionCall(r, a)

SimSettles ==
    \/ \E op \in ops, o \in Outcomes : SimRestoreSessionSettle(op, o)
    \/ \E op \in ops, f \in 0..3 : ClearSessionSettle(op, f, FALSE)
    \/ \E op \in ops, f \in 0..2 : SimConnectWalletPersist(op, f)
    \/ \E op \in ops, f \in 0..2 : SendTransactionPersist(op, f)

SimNext == SimCalls \/ SimSettles

SimSpec == SimInit /\ [][SimNext]_vars

-----------------------------------------------------------------------------
(* retry (src/utils/helpers.ts) *)

MaxAttempts == 3    \* maxAttempts ranges over 0..MaxAttempts

\* the errors fn rejects with and the values it resolves to
FnErrors == {"E1", "E2"}
FnValues == {"V1", "V2"}
\* delayMs
Delays == {0, 1000}

\* let lastError: Error;  before its first assignment
Undefined == <<"undefined">>

\* no backoff: the same delay before every attempt
ConstantBackoff(n) == 1

RECURSIVE Pow2(_)
\* Math.pow(2, n) for n >= 0
Pow2(n) == IF n = 0 THEN 1 ELSE 2 * Pow2(n - 1)

\* a retry(fn, maxAttempts, delayMs) suspended at an await: attempt and
\* lastError are its locals, fnCalls counts the fn() invocations it made and
\* waits lists the sleep(ms) it made
RetryOp(pc, attempt, maxAttempts, delayMs, lastError, fnCalls, waits) ==
    [kind |-> "retry", pc |-> pc, attempt |-> attempt,
     maxAttempts |-> maxAttempts, delayMs |-> delayMs,
     lastError |-> lastError, fnCalls |-> fnCalls, waits |-> waits]

\* return await fn()  resolved: id is the number of fn() invocations made
Returned(op, value) ==
    [kind |-> "retry", id |-> op.fnCalls, result |-> "resolved",
     err |-> Null, val |-> Some(value)]

\* throw lastError!
Thrown(op, lastError) ==
    [kind |-> "retry", id |-> op.fnCalls, result |-> "rejected",
     err |-> Some(lastError), val |-> Null]

\* the handlers do not run while retry is exercised
RetryFrame ==
    UNCHANGED <<storage, mem, sdkWallet, now, nextId, delegateCalls>>

\* a loop that runs once more than asked
LoopOnceMore(attempt, maxAttempts) == attempt <= maxAttempts + 1

\* the loop test  attempt <= maxAttempts
LoopTest(attempt, maxAttempts) == attempt <= maxAttempts

\* the loop head reached with the given attempt: the test, and then either
\* fn() is invoked and awaited or the loop is left and lastError thrown
RetryLoop(op, rest, attempt, lastError) ==
    IF LoopTest(attempt, op.maxAttempts)
    THEN LET next == [op EXCEPT !.pc = "fn", !.attempt = attempt,
                                !.lastError = lastError,
                                !.fnCalls = op.fnCalls + 1]
         IN  /\ next \notin rest
             /\ ops' = rest \cup {next}
             /\ NoSettle
    ELSE /\ ops' = rest
         /\ Settled(Thrown(op, lastError))

\* retry(fn, maxAttempts, delayMs) is called: attempt = 1 and the loop head
RetryCall(maxAttempts, delayMs) ==
    /\ Called
    /\ RetryLoop(RetryOp("fn", 1, maxAttempts, delayMs, Undefined, 0, <<>>),
                 ops, 1, Undefined)
    /\ RetryFrame

\* await fn() settles: a value is returned; an error is caught, and the
\* sleep is awaited or the loop goes to its next iteration
RetryFnSettle(op, outcome, x) ==
    /\ op \in ops
    /\ op.kind = "retry"
    /\ op.pc = "fn"
    /\ IF outcome = "ok"
       THEN /\ x \in FnValues
            /\ ops' = ops \ {op}
            /\ Settled(Returned(op, x))
       ELSE /\ x \in FnErrors
            /\ IF op.attempt < op.maxAttempts
               THEN LET ms == op.delayMs * Pow2(op.attempt - 1)
                        next == [op EXCEPT !.pc = "sleep", !.lastError = x,
                                           !.waits = Append(op.waits, ms)]
                    IN  /\ next \notin ops
                        /\ ops' = (ops \ {op}) \cup {next}
                        /\ NoSettle
               ELSE RetryLoop(op, ops \ {op}, op.attempt + 1, x)
    /\ RetryFrame
    /\ UNCHANGED calls

\* await sleep(...) resolves: attempt++ and the loop head
RetrySleepSettle(op) ==
    /\ op \in ops
    /\ op.kind = "retry"
    /\ op.pc = "sleep"
    /\ RetryLoop(op, ops \ {op}, op.attempt + 1, op.lastError)
    /\ RetryFrame
    /\ UNCHANGED calls

\* no provider is mounted; the application is about to call retry
RetryInit ==
    /\ storage = EmptyStorage
    /\ sdkWallet = Null
    /\ walletAddress = Null
    /\ publicKey = Null
    /\ isConnected = FALSE
    /\ balance = Null
    /\ isLoading = FALSE
    /\ error = Null
    /\ transactions = <<>>
    /\ lastActivity = Null
    /\ ops = {}
    /\ now = 0
    /\ nextId = 0
    /\ delegateCalls = 0
    /\ calls = 0
    /\ last = NoResult

RetryNext ==
    \/ \E m \in 0..MaxAttempts, d \in Delays : RetryCall(m, d)
    \/ \E op \in ops, o \in Outcomes, x \in FnValues \cup FnErrors : RetryFnSettle(op, o, x)
    \/ \E op \in ops : RetrySleepSettle(op)

RetrySpec == RetryInit /\ [][RetryNext]_vars

-----------------------------------------------------------------------------
(* retry(() => sendTransaction(recipientAddress, amount, token), 3, 1000), as
   the README shows it, on the SDK-backed provider *)

\* the arguments the wrapped sendTransaction is called with
RetryRecipient == AddrB
RetryAmount == Num(2)

\* a retry whose fn is the wrapped sendTransaction: base is the number of
\* sendTransaction calls made before it started, so that its fnCalls-th call
\* has the id base + fnCalls; executed counts its attempts in which
\* signAndExecuteTransaction resolved
RetrySendOp(maxAttempts, delayMs) ==
    [kind |-> "retry", pc |-> "fn", attempt |-> 1,
     maxAttempts |-> maxAttempts, delayMs |-> delayMs,
     lastError |-> Undefined, fnCalls |-> 1, waits |-> <<>>,
     base |-> nextId, executed |-> 0]

Retries == {op \in ops : op.kind = "retry"}

\* return await fn(): fn is about to be invoked
InvocationPending ==
    \E r \in Retries : r.pc = "fn" /\ r.fnCalls > nextId - r.base

\* the sendTransaction r awaits has settled, and r's continuation is the
\* next thing to run
ReactionReady(r) ==
    /\ r.kind = "retry"
    /\ r.pc = "fn"
    /\ r.fnCalls = nextId - r.base
    /\ \A o \in ops : ~(o.kind = "sendTransaction" /\ o.id = r.base + r.fnCalls)

\* the application calls retry(...): attempt = 1 and fn is about to be
\* invoked
RetrySendCall(maxAttempts, delayMs) ==
    /\ Retries = {}
    /\ calls < MaxCalls
    /\ ops' = ops \cup {RetrySendOp(maxAttempts, delayMs)}
    /\ UNCHANGED <<storage, mem, sdkWallet, now, nextId, delegateCalls, calls, last>>

\* fn(): the wrapped sendTransaction is called
RetrySendInvoke(built) ==
    /\ InvocationPending
    /\ SendTransactionCall(RetryRecipient, RetryAmount, built)

\* await fn() settles with the outcome of the sendTransaction: its id is
\* returned, or its error is caught and the sleep is awaited or the loop
\* goes to its next iteration
RetrySendFnSettle(r) ==
    /\ r \in ops
    /\ ReactionReady(r)
    /\ last.kind = "sendTransaction"
    /\ last.id = r.base + r.fnCalls
    /\ LET done == IF last.result = "resolved" \/ last.err = Some(ErrStorage)
                   THEN 1 ELSE 0
           rr == [r EXCEPT !.executed = r.executed + done]
       IN  IF last.result = "resolved"
           THEN /\ ops' = ops \ {r}
                /\ Settled(Returned(rr, last.id))
           ELSE IF r.attempt < r.maxAttempts
           THEN /\ ops' = (ops \ {r}) \cup
                          {[rr EXCEPT !.pc = "sleep", !.lastError = Val(last.err),
                                      !.waits = Append(r.waits,
                                                   r.delayMs * Pow2(r.attempt - 1))]}
                /\ NoSettle
           ELSE RetryLoop(rr, ops \ {r}, r.attempt + 1, Val(last.err))
    /\ RetryFrame
    /\ UNCHANGED calls

\* fn is invoked in the segment that reached it, and the continuation of a
\* settled await fn() runs before any other callback
Quiet == ~InvocationPending /\ \A r \in ops : ~ReactionReady(r)

RetrySendNext ==
    \/ \E m \in 1..MaxAttempts, d \in Delays : RetrySendCall(m, d)
    \/ \E b \in Outcomes : RetrySendInvoke(b)
    \/ \E r \in ops : RetrySendFnSettle(r)
    \/ Quiet /\ \E op \in ops, o \in Outcomes : RestoreSessionSettle(op, o)
    \/ Quiet /\ \E op \in ops, f \in 0..3 : ClearSessionSettle(op, f, TRUE)
    \/ Quiet /\ \E op \in ops, o \in Outcomes : SendTransactionSettle(op, o)
    \/ Quiet /\ \E op \in ops, f \in 0..2 : SendTransactionPersist(op, f)
    \/ Quiet /\ \E op \in ops : RetrySleepSettle(op)

RetrySendSpec == Init /\ [][RetrySendNext]_vars

-----------------------------------------------------------------------------
(* Recipient validators: isValidSolanaAddress of src/utils/helpers.ts and of
   the gasless transfer screen (src/TUTORIALS.md) *)

\* A recipient string is a sequence of its characters.

\* the alphabet of bs58, in digit order
Alphabet58 ==
    <<
      "1", "2", "3", "4", "5", "6", "7", "8", "9", "A", "B", "C",
      "D", "E", "F", "G", "H", "J", "K", "L", "M", "N", "P", "Q",
      "R", "S", "T", "U", "V", "W", "X", "Y", "Z", "a", "b", "c",
      "d", "e", "f", "g", "h", "i", "j", "k", "m", "n", "o", "p",
      "q", "r", "s", "t", "u", "v", "w", "x", "y", "z" >>

\* the characters of the class [1-9A-HJ-NP-Z]
ScreenChars ==
    {"1", "2", "3", "4", "5", "6", "7", "8", "9"} \cup
    {"A", "B", "C", "D", "E", "F", "G", "H"} \cup
    {"J", "K", "L", "M", "N"} \cup
    {"P", "Q", "R", "S", "T", "U", "V", "W", "X", "Y", "Z"}

IsBase58Char(c) == \E i \in 1..Len(Alphabet58) : Alphabet58[i] = c

\* BASE_MAP[c]
Digit58(c) == (CHOOSE i \in 1..Len(Alphabet58) : Alphabet58[i] = c) - 1

RECURSIVE MulAdd(_, _)
\* bytes * 58 + carry, on a little-endian byte sequence without high zeros
MulAdd(bytes, carry) ==
    IF bytes = <<>>
    THEN IF carry = 0 THEN <<>> ELSE <<carry % 256>> \o MulAdd(<<>>, carry \div 256)
    ELSE LET v == Head(bytes) * 58 + carry
         IN  <<v % 256>> \o MulAdd(Tail(bytes), v \div 256)

\* the bytes of the number the characters of address denote: each character
\* in turn is multiplied into the bytes decoded so far
Significant(address) ==
    LET b256[i \in 0..Len(address)] ==
            IF i = 0 THEN <<>> ELSE MulAdd(b256[i - 1], Digit58(address[i]))
    IN  b256[Len(address)]

RECURSIVE LeadingOnes(_)
\* the leading "1" characters, each of which decodes to one zero byte
LeadingOnes(chars) ==
    IF chars # <<>> /\ Head(chars) = "1" THEN 1 + LeadingOnes(Tail(chars)) ELSE 0

\* bs58.decode(address).length, or -1 when decode throws on a character
\* outside the alphabet
DecodedLength(address) ==
    IF \E i \in 1..Len(address) : ~IsBase58Char(address[i])
    THEN -1
    ELSE LeadingOnes(address) + Len(Significant(address))

\* helpers: try { new PublicKey(address); return true } catch { return false }
\* new PublicKey(string) throws unless the decoded key has 32 bytes
HelperIsValidSolanaAddress(address) == DecodedLength(address) = 32

\* screen: address.length >= 32 && address.length <= 44 &&
\* /^[1-9A-HJ-NP-Z]+$/.test(address)
ScreenIsValidSolanaAddress(address) ==
    /\ Len(address) >= 32
    /\ Len(address) <= 44
    /\ address # <<>>
    /\ \A i \in 1..Len(address) : address[i] \in ScreenChars

\* k copies of the character c
Repeat(c, k) == [i \in 1..k |-> c]

\* the lengths of the two runs of a recipient
RunLengths ==
    {<<0, 0>>, <<0, 1>>, <<0, 31>>, <<0, 32>>, <<0, 43>>, <<0, 44>>, <<0, 45>>,
     <<31, 0>>, <<31, 1>>, <<31, 2>>, <<31, 13>>, <<31, 14>>,
     <<32, 0>>, <<32, 1>>, <<32, 12>>, <<1, 43>>}

\* the recipients the validators are given: a run of "1" followed by a run
\* of one other character
RecipientInputs ==
    {Repeat("1", r[1]) \o Repeat(c, r[2]) : r \in RunLengths, c \in {"2", "Z", "z", "0"}}

\* what a validator returned for an address
Validated(kind, address, accepted) ==
    [kind |-> kind, id |-> 0, result |-> "resolved", err |-> Null,
     val |-> Some([address |-> address, accepted |-> accepted])]

\* the validators touch no provider state
ValidatorFrame ==
    UNCHANGED <<storage, mem, sdkWallet, ops, now, nextId, delegateCalls>>

\* isValidSolanaAddress(address) of utils/helpers is called
HelperValidate(address) ==
    /\ Called
    /\ Settled(Validated("helpers.isValidSolanaAddress", address,
                         HelperIsValidSolanaAddress(address)))
    /\ ValidatorFrame

\* the screen's isValidSolanaAddress(address) is called
ScreenValidate(address) ==
    /\ Called
    /\ Settled(Validated("screen.isValidSolanaAddress", address,
                         ScreenIsValidSolanaAddress(address)))
    /\ ValidatorFrame

ValidatorNext ==
    \/ \E a \in RecipientInputs : HelperValidate(a)
    \/ \E a \in RecipientInputs : ScreenValidate(a)

\* no provider is mounted; the validators are about to be called
ValidatorSpec == RetryInit /\ [][ValidatorNext]_vars

-----------------------------------------------------------------------------
(* validateSessionKeyPermissions (src/utils/lazorkit.ts) *)

\* tokens, as the PublicKey of their mint
TokenA == [s |-> "TokenA", base58 |-> TRUE, bytes |-> 32]
TokenB == [s |-> "TokenB", base58 |-> TRUE, bytes |-> 32]

\* SessionPermissions: an optional field is null when it is left out
SessionPermissions ==
    [maxAmount : {Null, Some(Num(0)), Some(Num(2))},
     allowedRecipients : {Null, Some(<<>>), Some(<<AddrA>>)},
     allowedTokens : {Null, Some(<<TokenA>>)}]

\* SessionKey: the fields the validator reads
SessionKeys == [permissions : SessionPermissions, expiresAt : 0..MaxTime]

\* the truthiness of an optional number: undefined, 0 and NaN are falsy
TruthyNumber(m) == m # Null /\ IsNum(Val(m)) /\ Val(m)[2] # 0

\* a > b on JavaScript numbers
GreaterThan(a, b) == IsNum(a) /\ IsNum(b) /\ a[2] > b[2]

\* keys.some((k) => k.equals(key))
SomeEquals(keys, key) == \E i \in 1..Len(keys) : keys[i] = key

\* validateSessionKeyPermissions(sessionKey, recipient, amount, token)
ValidateSessionKeyPermissions(sessionKey, recipient, amount, token) ==
    LET permissions == sessionKey.permissions IN
    IF sessionKey.expiresAt < now THEN FALSE
    ELSE IF TruthyNumber(permissions.maxAmount)
            /\ GreaterThan(amount, Val(permissions.maxAmount)) THEN FALSE
    ELSE IF permissions.allowedRecipients # Null
            /\ ~SomeEquals(Val(permissions.allowedRecipients), recipient) THEN FALSE
    ELSE IF permissions.allowedTokens # Null
            /\ ~SomeEquals(Val(permissions.allowedTokens), token) THEN FALSE
    ELSE TRUE

\* what the validator returned, for which arguments and at what time
PermissionChecked(sessionKey, recipient, amount, token, returned) ==
    [kind |-> "validateSessionKeyPermissions", id |-> 0, result |-> "resolved",
     err |-> Null,
     val |-> Some([sessionKey |-> sessionKey, recipient |-> recipient,
                   amount |-> amount, token |-> token, at |-> now,
                   returned |-> returned])]

\* the application calls validateSessionKeyPermissions
ValidatePermissionsCall(sessionKey, recipient, amount, token) ==
    /\ Called
    /\ Settled(PermissionChecked(sessionKey, recipient, amount, token,
           ValidateSessionKeyPermissions(sessionKey, recipient, amount, token)))
    /\ UNCHANGED <<storage, mem, sdkWallet, ops, now, nextId, delegateCalls>>

PermissionNext ==
    \/ \E k \in SessionKeys, r \in {AddrA, AddrB}, a \in {Num(0), Num(2)},
          t \in {TokenA, TokenB} : ValidatePermissionsCall(k, r, a, t)
    \/ Tick

\* no provider is mounted; the application calls the validator as time passes
PermissionSpec == RetryInit /\ [][PermissionNext]_vars

-----------------------------------------------------------------------------
(* Properties *)

\* the handler op returns in this step
Completes(op) == op \in ops /\ ops' = ops \ {op}

\* a non-null address new PublicKey accepts
ValidAddress(m) == m # Null /\ IsValidPublicKey(Val(m))

\* the list a stored transactions value decodes to
Decoded(st) == JsonParse(Val(st.transactions))

Decodes(st) == st.transactions # Null /\ Val(st.transactions).valid

\* sendTransaction(r, a, ...) is called, in either provider
SendCall(r, a) ==
    SimSendTransactionCall(r, a) \/ \E b \in Outcomes : SendTransactionCall(r, a, b)

\* C1: SDK-backed provider: when restoreSession() has read a persisted triple
\* whose address is a valid chain address and completes, then, the provider's
\* effects having run, isConnected is true, walletAddress is the persisted
\* address and transactions is the persisted list in the same order.
C1_RestoreReproducesSession ==
    [][\A op \in ops :
          (/\ op.kind = "restoreSession"
           /\ op.pc = "get"
           /\ Completes(op)
           /\ last'.err = Null
           /\ ValidAddress(storage.walletAddress)
           /\ storage.lastActivity # Null
           /\ Decodes(storage))
          => /\ isConnected'
             /\ walletAddress' = storage.walletAddress
             /\ transactions' = Decoded(storage)]_vars

\* C2: when restoreSession() completes (no SecureStore call having failed)
\* and the persisted walletAddress is not a valid chain address, it has not
\* thrown, isConnected is false, walletAddress is null and the three keys are
\* deleted; run again on that empty state it changes nothing and reports no
\* error.
C2_InvalidAddressClearsSession ==
    [][\A op \in ops :
          (op.kind = "restoreSession" /\ Completes(op) /\ last'.err # Some(ErrStorage))
          => /\ (storage.walletAddress # Null /\ ~ValidAddress(storage.walletAddress))
                => /\ last'.result = "resolved"
                   /\ ~isConnected'
                   /\ walletAddress' = Null
                   /\ storage' = EmptyStorage
             /\ (storage = EmptyStorage /\ walletAddress = Null /\ ~isConnected /\ error = Null)
                => /\ last'.err = Null
                   /\ UNCHANGED <<storage, walletAddress, isConnected, error>>]_vars

\* C3: SDK-backed provider: when disconnectWallet completes, having been
\* called after a connectWallet that succeeded, isConnected is false and none
\* of the three keys is present, whether the SDK's disconnect resolved or
\* threw.
C3_DisconnectAfterConnect ==
    [][\A op \in ops :
          (/\ op.kind = "disconnectWallet"
           /\ Completes(op)
           /\ last.kind = "connectWallet"
           /\ ValidAddress(last.val))
          => (~isConnected' /\ storage' = EmptyStorage)]_vars

\* C4: no sendTransaction with a recipient that is no valid chain address is
\* ever past its validation, and no record with such a recipient is ever in
\* transactions or in the stored transactions.
C4_InvalidRecipientRejected ==
    /\ \A op \in ops : op.kind = "sendTransaction" => IsValidPublicKey(Val(op.rcpt))
    /\ \A i \in DOMAIN transactions : IsValidPublicKey(transactions[i].recipient)
    /\ Decodes(storage)
       => \A i \in DOMAIN Decoded(storage) : IsValidPublicKey(Decoded(storage)[i].recipient)

\* C5: a sendTransaction called with an amount greater than the cached
\* balance, the balance being known, rejects without calling the delegate
\* and without adding a record.
C5_InsufficientBalanceRejected ==
    [][\A r \in Recipients, a \in Amounts :
          (SendCall(r, a) /\ balance # Null /\ IsNum(a) /\ a[2] > Val(balance))
          => /\ last'.result = "rejected"
             /\ last'.id = nextId'
             /\ UNCHANGED <<ops, delegateCalls, storage, transactions>>]_vars

\* C6: a sendTransaction called with an amount that is zero, negative or not
\* a number rejects in the call itself, before the delegate or the storage is
\* used, and adds no record.
C6_NonPositiveAmountRejected ==
    [][\A r \in Recipients, a \in Amounts :
          (SendCall(r, a) /\ (~IsNum(a) \/ a[2] <= 0))
          => /\ last'.result = "rejected"
             /\ last'.id = nextId'
             /\ UNCHANGED <<ops, delegateCalls, storage, transactions>>]_vars

C8_NotConnectedRejected ==
    [][(/\ ~isConnected
        /\ \/ SignMessageCall
           \/ SimSignMessageCall
           \/ \E r \in Recipients, a \in Amounts : SendCall(r, a))
       => /\ last'.result = "rejected"
          /\ last'.err = Some(ErrNotConnected)
          /\ UNCHANGED <<storage, mem, sdkWallet, ops, delegateCalls>>]_vars

\* a signMessage call has been rejected in a disconnected state
C8_Witness ==
    /\ ~isConnected
    /\ calls > 0
    /\ last = Rejected("signMessage", 0, ErrNotConnected)

\* C9: when the sendTransaction that settled last rejected, no record of that
\* call is in transactions or in the stored transactions.
C9_FailedSendLeavesNoRecord ==
    (last.kind = "sendTransaction" /\ last.result = "rejected")
    => /\ \A i \in DOMAIN transactions : transactions[i].id # last.id
       /\ Decodes(storage)
          => \A i \in DOMAIN Decoded(storage) : Decoded(storage)[i].id # last.id

\* valid address and isConnected
FullyConnected == ValidAddress(walletAddress) /\ isConnected

\* no address, not connected, no transactions
FullyDisconnected == walletAddress = Null /\ ~isConnected /\ transactions = <<>>

\* C10: when restoreSession() completes and the stored transactions value is
\* no JSON, it has not thrown and the provider is fully connected or fully
\* disconnected.
C10_CorruptJsonConsistent ==
    [][\A op \in ops :
          (/\ op.kind = "restoreSession"
           /\ Completes(op)
           /\ storage.transactions # Null
           /\ ~Val(storage.transactions).valid)
          => /\ last'.result = "resolved"
             /\ FullyConnected' \/ FullyDisconnected']_vars

\* C11: between operations isConnected is true exactly when walletAddress is
\* non-null and a valid chain address.
C11_ConnectedIffValidAddress ==
    ops = {} => (isConnected <=> ValidAddress(walletAddress))

\* C12: when clearSession() completes, no delete having thrown, the three
\* keys are deleted and walletAddress, publicKey, isConnected, transactions,
\* lastActivity, error and balance have their initial values.
C12_ClearSessionResets ==
    [][\A op \in ops :
          (op.kind = "clearSession" /\ Completes(op) /\ last'.err = Null)
          => /\ storage' = EmptyStorage
             /\ walletAddress' = Null
             /\ publicKey' = Null
             /\ ~isConnected'
             /\ transactions' = <<>>
             /\ lastActivity' = Null
             /\ error' = Null
             /\ balance' = Null]_vars

\* a provider as first rendered, with the mount effect's restoreSession()
\* suspended at its reads
FreshlyMounted(op) ==
    /\ op.kind = "restoreSession"
    /\ op.pc = "get"
    /\ ops = {op}
    /\ walletAddress = Null
    /\ publicKey = Null
    /\ ~isConnected
    /\ error = Null
    /\ transactions = <<>>
    /\ lastActivity = Null

\* C13: simulated provider: when the restoreSession() of a freshly mounted
\* provider completes (its reads not having thrown) against the storage a
\* successful connectWallet left, isConnected is true, walletAddress is the
\* address connectWallet stored and error is null.
C13_ConnectThenRestore ==
    [][\A op \in ops :
          (/\ FreshlyMounted(op)
           /\ Completes(op)
           /\ last'.err # Some(ErrStorage)
           /\ last.kind = "connectWallet"
           /\ last.val # Null
           /\ storage.walletAddress = last.val)
          => /\ isConnected'
             /\ walletAddress' = last.val
             /\ error' = Null]_vars

\* C14: SDK-backed provider, each call awaited: when connectWallet completes,
\* the SDK's connect having returned a valid address and the writes having
\* succeeded, walletAddress in storage is that address, lastActivity in
\* storage is the current time, isConnected is true and walletAddress is
\* that address.
C14_ConnectPersists ==
    [][\A op \in ops :
          (/\ op.kind = "connectWallet"
           /\ op.pc = "persist"
           /\ Completes(op)
           /\ last'.err = Null
           /\ ValidAddress(op.sw))
          => /\ storage'.walletAddress = op.sw
             /\ storage'.lastActivity = Some(NumberToString(now))
             /\ isConnected'
             /\ walletAddress' = op.sw]_vars

\* a connectWallet has completed at time 1 over a session stored at time 0
C14_Witness ==
    /\ last = [Resolved("connectWallet", 0) EXCEPT !.val = Some(AddrA)]
    /\ ops = {}
    /\ now = 1
    /\ isConnected
    /\ storage.walletAddress = Some(AddrA)
    /\ storage.lastActivity = Some(NumberToString(1))
    /\ storage.transactions # Null

\* connectWallet's SDK call throws in a disconnected state, or one of its
\* writes throws, in this step
ConnectFails(op) ==
    \/ ~isConnected /\ \E r \in ConnectResults : ConnectWalletSettle(op, "throws", r)
    \/ \E f \in 1..2 : ConnectWalletPersist(op, f) \/ SimConnectWalletPersist(op, f)

\* C15: when connectWallet fails (the SDK's connect throws, or a write
\* throws), the handler returns without another attempt, error is non-null
\* and isConnected is false.
C15_FailedConnectLeavesError ==
    [][\A op \in ops :
          ConnectFails(op) => (Completes(op) /\ error' # Null /\ ~isConnected')]_vars

MirrorOf(txs, st) ==
    IF txs = <<>> THEN st.transactions = Null
    ELSE Decodes(st) /\ Decoded(st) = txs

\* C17: the mutation of the list keeps the mirror: a sendTransaction called
\* when the stored value mirrored transactions, and completing with no other
\* handler in flight, leaves the stored value mirroring transactions.
C17_StorageMirrorsTransactions ==
    [][\A op \in ops :
          (/\ op.kind = "sendTransaction"
           /\ op.pc = "persist"
           /\ Completes(op)
           /\ ops' = {}
           /\ MirrorOf(Tail(op.cap), storage))
          => MirrorOf(transactions', storage')]_vars

\* C18: a retry called with maxAttempts >= 1 never has made more than
\* maxAttempts calls of fn; when a call of fn succeeds retry returns with
\* that call's value in the same step; when a call fails, retry goes on if
\* fewer than maxAttempts calls were made, and otherwise throws the error of
\* that call.
C18_RetryContract ==
    [][\A op \in ops :
          (op.kind = "retry" /\ op.maxAttempts >= 1) =>
             /\ op.fnCalls <= op.maxAttempts
             /\ \A v \in FnValues :
                   RetryFnSettle(op, "ok", v) =>
                      /\ Completes(op)
                      /\ last'.result = "resolved"
                      /\ last'.val = Some(v)
                      /\ last'.id <= op.maxAttempts
             /\ \A e \in FnErrors :
                   RetryFnSettle(op, "throws", e) =>
                      IF op.fnCalls < op.maxAttempts
                      THEN /\ op \notin ops'
                           /\ \E n \in ops' : /\ n.kind = "retry"
                                              /\ n.pc = "sleep"
                                              /\ n.fnCalls = op.fnCalls
                           /\ UNCHANGED last
                      ELSE /\ Completes(op)
                           /\ last'.result = "rejected"
                           /\ last'.err = Some(e)
                           /\ last'.id = op.maxAttempts
             /\ (op.pc = "sleep" /\ RetrySleepSettle(op)) =>
                   \E n \in ops' : /\ n.kind = "retry"
                                   /\ n.pc = "fn"
                                   /\ n.fnCalls = op.fnCalls + 1]_vars

\* all three calls of a retry with maxAttempts = 3 failed, the last one with
\* E2, and retry threw E2
C18_Witness ==
    /\ last.kind = "retry"
    /\ last.result = "rejected"
    /\ last.id = 3
    /\ last.err = Some("E2")
    /\ ops = {}

\* C19: a fetchBalance called while the wallet is not connected starts no
\* RPC call and changes neither the session fields nor the storage; a
\* fetchBalance whose RPC call fails leaves balance, error, the other session
\* fields and the storage as they were.
C19_FetchBalanceFrame ==
    [][/\ (FetchBalanceCall /\ ~isConnected) =>
             UNCHANGED <<ops, mem, storage, sdkWallet>>
       /\ \A op \in ops, b \in RpcBalances :
             FetchBalanceSettle(op, "throws", b) =>
                UNCHANGED <<mem, storage, sdkWallet>>]_vars

\* the wallet is connected, a fetchBalance has settled and no balance is
\* cached: its RPC call failed
C19_Witness ==
    /\ isConnected
    /\ last.kind = "fetchBalance"
    /\ balance = Null
    /\ ops = {}

\* the handlers that read or write lastActivity
ActivityKinds == {"connectWallet", "signMessage", "sendTransaction", "restoreSession"}

\* C20: lastActivity never moves back: when a connectWallet, signMessage,
\* sendTransaction or restoreSession completes without an error, the
\* timestamp in lastActivity is not earlier than the one it held before.
C20_LastActivityNeverMovesBack ==
    [][\A op \in ops :
          (/\ op.kind \in ActivityKinds
           /\ Completes(op)
           /\ last'.kind = op.kind
           /\ last'.result = "resolved"
           /\ last'.err = Null
           /\ lastActivity # Null
           /\ lastActivity' # Null)
          => Val(lastActivity') >= Val(lastActivity)]_vars

\* this step is taken by a handler of one of the kinds: it starts, moves to
\* its next await, or returns
StepOf(kinds) ==
    \E op \in (ops \ ops') \cup (ops' \ ops) : op.kind \in kinds

\* this step is taken by a clearSession body, whoever called it
ClearSessionStep == \E op \in ops \ ops' : op.pc = "delete"

\* C21: isConnected goes from false to true only in a step of a
\* restoreSession that read a valid stored address or of a connectWallet that
\* does not fail in that step, and from true to false only in a step of
\* disconnectWallet or clearSession or in a step that met an invalid address
\* (a stored one, or one the SDK store now holds); an application restart is
\* not an operation.
C21_IsConnectedTransitions ==
    [][/\ (~isConnected /\ isConnected') =>
             \/ StepOf({"restoreSession"}) /\ ValidAddress(storage.walletAddress)
             \/ StepOf({"connectWallet"}) /\ (UNCHANGED last \/ last'.err = Null)
       /\ (isConnected /\ ~isConnected' /\ ~SimRestart) =>
             \/ StepOf({"disconnectWallet", "clearSession"})
             \/ ClearSessionStep
             \/ StepOf({"restoreSession"}) /\ storage.walletAddress # Null
                                           /\ ~ValidAddress(storage.walletAddress)
             \/ sdkWallet' # Null /\ ~ValidAddress(sdkWallet')]_vars

\* C22: when a disconnectWallet returns and nothing else is in flight, the
\* in-memory session is cleared: walletAddress null, isConnected false,
\* transactions empty and lastActivity null, whether or not a SecureStore
\* delete threw.
C22_DisconnectAlwaysClears ==
    [][\A op \in ops :
          (op.kind = "disconnectWallet" /\ Completes(op) /\ ops' = {}) =>
             /\ walletAddress' = Null
             /\ ~isConnected'
             /\ transactions' = <<>>
             /\ lastActivity' = Null]_vars

\* every amount in the list is a positive number
AllPositive(txs) ==
    \A i \in 1..Len(txs) : IsNum(txs[i].amount) /\ txs[i].amount[2] > 0

\* C23: when the storage write of a sendTransaction succeeds right after
\* another sendTransaction resolved, and nothing is in flight any more, the
\* stored transactions are the list this last writer wrote and the
\* in-memory list equals them (the amounts sent being positive numbers).
C23_LastWriteWins ==
    [][\A op \in ops :
          (/\ op.kind = "sendTransaction"
           /\ SendTransactionPersist(op, 0)
           /\ ops' = {}
           /\ last.kind = "sendTransaction"
           /\ last.result = "resolved"
           /\ last.id # op.id
           /\ AllPositive(transactions'))
          => /\ Decodes(storage')
             /\ Decoded(storage') = op.cap
             /\ transactions' = Decoded(storage')]_vars

\* C24: a retry with maxAttempts >= 1 has slept once after each failed call
\* but the maxAttempts-th, the i-th sleep for delayMs * 2^(i-1); the failure
\* of the k-th call, k < maxAttempts, starts that sleep in the same step,
\* and a successful call or the failure of the maxAttempts-th call ends
\* retry in the same step, with no sleep.
C24_ExponentialBackoff ==
    [][\A op \in ops :
          (op.kind = "retry" /\ op.maxAttempts >= 1) =>
             /\ Len(op.waits) = IF op.pc = "sleep" THEN op.fnCalls ELSE op.fnCalls - 1
             /\ Len(op.waits) < op.maxAttempts
             /\ \A i \in 1..Len(op.waits) : op.waits[i] = op.delayMs * 2^(i - 1)
             /\ \A e \in FnErrors :
                   RetryFnSettle(op, "throws", e) =>
                      IF op.fnCalls < op.maxAttempts
                      THEN \E n \in ops' \ ops :
                              /\ n.pc = "sleep"
                              /\ n.waits = Append(op.waits, op.delayMs * 2^(op.fnCalls - 1))
                      ELSE Completes(op)
             /\ \A v \in FnValues :
                   RetryFnSettle(op, "ok", v) => Completes(op)]_vars

\* a retry with delayMs = 1000 sleeps for the second time, 2000 ms, after
\* its second failed call
C24_Witness ==
    \E op \in ops : /\ op.kind = "retry"
                    /\ op.pc = "sleep"
                    /\ op.delayMs = 1000
                    /\ op.waits = <<1000, 2000>>

\* C25: a recipient that isValidSolanaAddress of utils/helpers accepted is
\* accepted by the isValidSolanaAddress of the gasless transfer screen.
C25_ScreenAcceptsValidAddresses ==
    (/\ last.kind = "helpers.isValidSolanaAddress"
     /\ Val(last.val).accepted)
    => ScreenIsValidSolanaAddress(Val(last.val).address)

\* the limits the permissions define are respected by the arguments
LimitsRespected(p, recipient, amount, token) ==
    /\ p.maxAmount # Null =>
          IsNum(amount) /\ IsNum(Val(p.maxAmount)) /\ amount[2] <= Val(p.maxAmount)[2]
    /\ p.allowedRecipients # Null =>
          \E i \in 1..Len(Val(p.allowedRecipients)) : Val(p.allowedRecipients)[i] = recipient
    /\ p.allowedTokens # Null =>
          \E i \in 1..Len(Val(p.allowedTokens)) : Val(p.allowedTokens)[i] = token

\* C26: validateSessionKeyPermissions returned true exactly when the session
\* key was not expired at the call and every limit its permissions define
\* (maxAmount, 0 included; allowedRecipients; allowedTokens) is respected.
C26_PermissionsIffLimits ==
    last.kind = "validateSessionKeyPermissions" =>
       LET c == Val(last.val) IN
       c.returned <=> (/\ ~(c.sessionKey.expiresAt < c.at)
                       /\ LimitsRespected(c.sessionKey.permissions, c.recipient,
                                          c.amount, c.token))

\* the logged-out state a completed disconnectWallet leaves: nothing
\* persisted, no history, no activity, no balance
LoggedOutClean ==
    /\ storage = EmptyStorage
    /\ transactions = <<>>
    /\ lastActivity = Null
    /\ balance = Null

\* op was started while the wallet was connected: a send or a fetchBalance
\* (a call made while disconnected returns at once), or a connectWallet
\* whose SDK connect has resolved
StartedWhileConnected(op) ==
    \/ op.kind \in {"sendTransaction", "fetchBalance"}
    \/ op.kind = "connectWallet" /\ op.pc = "persist"

\* C27: when the most recently settled handler is a disconnectWallet that
\* completed without error and left the logged-out state clean, a step of a
\* handler that was in flight when it ran persists no session key and leaves
\* transactions, lastActivity and balance empty.
C27_InFlightAfterDisconnect ==
    [][\A op \in ops :
          (/\ StartedWhileConnected(op)
           /\ op \notin ops'
           /\ last.kind = "disconnectWallet"
           /\ last.err = Null
           /\ ~isConnected
           /\ LoggedOutClean)
          => LoggedOutClean']_vars

\* the list holds exactly one record of the send with this id
OneRecord(txs, id) == Cardinality({i \in 1..Len(txs) : txs[i].id = id}) = 1

\* C28: when a sendTransaction resolves right after another sendTransaction
\* resolved, and nothing is in flight any more, the in-memory list and the
\* stored list each hold exactly one record of either send (the amounts
\* sent being positive numbers).
C28_NoSendLost ==
    [][\A op \in ops :
          (/\ op.kind = "sendTransaction"
           /\ SendTransactionPersist(op, 0)
           /\ ops' = {}
           /\ last.kind = "sendTransaction"
           /\ last.result = "resolved"
           /\ last.id # op.id
           /\ Decodes(storage) /\ AllPositive(Decoded(storage))
           /\ AllPositive(op.cap))
          => /\ OneRecord(transactions', op.id)
             /\ OneRecord(transactions', last.id)
             /\ Decodes(storage')
             /\ OneRecord(Decoded(storage'), op.id)
             /\ OneRecord(Decoded(storage'), last.id)]_vars

\* C29: a retry that has invoked the wrapped sendTransaction and awaits it
\* has had no earlier attempt in which signAndExecuteTransaction resolved:
\* sendTransaction is invoked again only after attempts whose delegate
\* failed, so the transfer is executed at most once per retry.
C29_DelegateAtMostOnce ==
    \A r \in ops :
       (r.kind = "retry" /\ r.pc = "fn" /\ r.fnCalls = nextId - r.base)
       => r.executed = 0

\* C30: whenever the provider is disconnected and no handler is in flight,
\* transactions is empty and lastActivity is null.
C30_NoHistoryWhenDisconnected ==
    (ops = {} /\ ~isConnected) => (transactions = <<>> /\ lastActivity = Null)

====
